---------------------------- MODULE Spec2Model ----------------------------
(***************************************************************************)
(* A model of the WhisperX subtitle cleaner: the SRT parser (srt_file.py), *)
(* the junk classifier and rewriter (clean_whisperx_output.py), the file   *)
(* naming helpers (shared_utils.py) and the pattern list                   *)
(* (junk_patterns.py).                                                     *)
(*                                                                         *)
(* A Python str is a sequence of one-character strings, so that strip,     *)
(* split, join, int(), re.split and re.search are computed character by    *)
(* character as the interpreter computes them.  A float number of seconds  *)
(* is represented by the integer number of milliseconds it stands for.     *)
(***************************************************************************)
EXTENDS Integers, Sequences, FiniteSets, TLC

VARIABLES
    fs,                     \* the files: path |-> content
    current_main_log_file,  \* the module global of clean_whisperx_output.py
    call,                   \* the last operation invoked and its arguments
    result,                 \* what the last clean_srt_file returned
    locals,                 \* the locals of that clean_srt_file at its return
    opened,                 \* the files the last operation opened to write
    srt_file,               \* an SRTFile object (its SrtCleaner wraps it)
    phony_subtitles,        \* what the last find_phony_subtitles returned
    removal_result          \* what the last remove_junk_subtitles returned

vars == <<fs, current_main_log_file, call, result, locals, opened,
          srt_file, phony_subtitles, removal_result>>

-----------------------------------------------------------------------------
(* Characters and the str methods the program uses.                        *)

NL == "\n"

Whitespace == {" ", NL, "\t"}

DigitChars == <<"0", "1", "2", "3", "4", "5", "6", "7", "8", "9">>

IsSpace(c) == c \in Whitespace

IsDigit(c) == \E d \in 1..10 : DigitChars[d] = c

DigitVal(c) == (CHOOSE d \in 1..10 : DigitChars[d] = c) - 1

ToLower ==
    ("A" :> "a") @@ ("B" :> "b") @@ ("C" :> "c") @@ ("D" :> "d") @@
    ("E" :> "e") @@ ("F" :> "f") @@ ("G" :> "g") @@ ("H" :> "h") @@
    ("I" :> "i") @@ ("J" :> "j") @@ ("K" :> "k") @@ ("L" :> "l") @@
    ("M" :> "m") @@ ("N" :> "n") @@ ("O" :> "o") @@ ("P" :> "p") @@
    ("Q" :> "q") @@ ("R" :> "r") @@ ("S" :> "s") @@ ("T" :> "t") @@
    ("U" :> "u") @@ ("V" :> "v") @@ ("W" :> "w") @@ ("X" :> "x") @@
    ("Y" :> "y") @@ ("Z" :> "z") @@ ("É" :> "é") @@ ("À" :> "à")

LowerChar(c) == IF c \in DOMAIN ToLower THEN ToLower[c] ELSE c

\* str.lower()
Lower(s) == [i \in 1..Len(s) |-> LowerChar(s[i])]

\* the offset of the first character that is not whitespace (Len(s) + 1
\* when there is none)
FirstNonSpace(s) ==
    CHOOSE i \in 1..(Len(s) + 1) :
        /\ i = Len(s) + 1 \/ ~IsSpace(s[i])
        /\ \A k \in 1..(i - 1) : IsSpace(s[k])

\* the number of whitespace characters at the end of s
TrailingSpaces(s) ==
    CHOOSE n \in 0..Len(s) :
        /\ n = Len(s) \/ ~IsSpace(s[Len(s) - n])
        /\ \A k \in (Len(s) - n + 1)..Len(s) : IsSpace(s[k])

\* str.strip(): leading and trailing whitespace removed
Strip(s) == SubSeq(s, FirstNonSpace(s), Len(s) - TrailingSpaces(s))

\* s.startswith(p) at offset i (1-based)
HasAt(s, p, i) ==
    /\ i + Len(p) - 1 <= Len(s)
    /\ \A k \in 1..Len(p) : s[i + k - 1] = p[k]

\* s.endswith(p)
EndsWith(s, p) == Len(p) <= Len(s) /\ HasAt(s, p, Len(s) - Len(p) + 1)

\* str.find(sep, i): the first offset >= i at which sep occurs, else 0
Find(s, sep, i) ==
    IF \E j \in i..(Len(s) - Len(sep) + 1) : HasAt(s, sep, j)
    THEN CHOOSE j \in i..(Len(s) - Len(sep) + 1) :
             /\ HasAt(s, sep, j)
             /\ \A k \in i..(j - 1) : ~HasAt(s, sep, k)
    ELSE 0

\* `sep in s`
Contains(s, sep) == Find(s, sep, 1) # 0

RECURSIVE Split(_, _)
\* the piece of s before the separator found at offset j and the pieces of
\* the rest; s itself when there is no separator (j = 0)
SplitAt(s, sep, j) ==
    IF j = 0 THEN <<s>>
    ELSE <<SubSeq(s, 1, j - 1)>> \o Split(SubSeq(s, j + Len(sep), Len(s)), sep)

\* str.split(sep) for a non-empty separator
Split(s, sep) == SplitAt(s, sep, Find(s, sep, 1))

RECURSIVE Join(_, _)
\* sep.join(parts)
Join(parts, sep) ==
    IF Len(parts) = 0 THEN <<>>
    ELSE IF Len(parts) = 1 THEN parts[1]
    ELSE parts[1] \o sep \o Join(Tail(parts), sep)

RECURSIVE DigitsVal(_, _)
DigitsVal(s, acc) ==
    IF Len(s) = 0 THEN acc ELSE DigitsVal(Tail(s), acc * 10 + DigitVal(s[1]))

\* int(s): surrounding whitespace ignored, an optional sign, then one or more
\* digits; anything else raises ValueError (ok = FALSE)
IntOfDigits(sign, body) ==
    IF Len(body) > 0 /\ \A i \in 1..Len(body) : IsDigit(body[i])
    THEN [ok |-> TRUE, val |-> sign * DigitsVal(body, 0)]
    ELSE [ok |-> FALSE, val |-> 0]

IntOfStripped(t) ==
    IF Len(t) > 0 /\ t[1] \in {"+", "-"}
    THEN IntOfDigits(IF t[1] = "-" THEN 0 - 1 ELSE 1, Tail(t))
    ELSE IntOfDigits(1, t)

ParseInt(s) == IntOfStripped(Strip(s))

RECURSIVE NatToStr(_)
NatToStr(n) ==
    IF n < 10 THEN <<DigitChars[n + 1]>>
    ELSE NatToStr(n \div 10) \o <<DigitChars[(n % 10) + 1]>>

\* f"{n}" for an int
IntToStr(n) == IF n < 0 THEN <<"-">> \o NatToStr(0 - n) ELSE NatToStr(n)

-----------------------------------------------------------------------------
(* srt_file.py: SRTFile.parse and SRTFile._parse_time.                     *)

\* offset k is a newline that only whitespace separates from offset i
ClosesBlank(s, i, k) == s[k] = NL /\ \A m \in (i + 1)..k : IsSpace(s[m])

\* \n\s*\n matches at offset i
BlankStartsAt(s, i) ==
    /\ i <= Len(s) /\ s[i] = NL
    /\ \E k \in (i + 1)..Len(s) : ClosesBlank(s, i, k)

\* the end of the match of \n\s*\n that starts at offset i: \s* is greedy
\* and gives characters back until a newline follows it, so the match ends at
\* the last newline of the whitespace run that follows offset i
BlankMatchEnd(s, i) ==
    CHOOSE k \in (i + 1)..Len(s) :
        /\ ClosesBlank(s, i, k)
        /\ \A n \in (k + 1)..Len(s) : ~ClosesBlank(s, i, n)

RECURSIVE ReSplitBlank(_, _)
\* the offset of the leftmost match of \n\s*\n at or after start, Len(s) + 1
\* when there is none: a match starts at a newline that another newline
\* follows after whitespace only
NextBlankMatch(s, start) ==
    CHOOSE i \in start..(Len(s) + 1) :
        /\ i = Len(s) + 1 \/ BlankStartsAt(s, i)
        /\ \A k \in start..(i - 1) : ~BlankStartsAt(s, k)

\* the piece before the match at offset i, then the pieces after its end
ReSplitAt(s, start, i) ==
    IF i = Len(s) + 1 THEN <<SubSeq(s, start, Len(s))>>
    ELSE <<SubSeq(s, start, i - 1)>>
         \o ReSplitBlank(s, BlankMatchEnd(s, i) + 1)

\* re.split(r'\n\s*\n', s) from offset start on: the pieces between the
\* leftmost matches
ReSplitBlank(s, start) == ReSplitAt(s, start, NextBlankMatch(s, start))

\* a variant that divides the milliseconds with // and so loses them
TimeOfFieldsFloorDivided(f) ==
    IF \A i \in 1..4 : f[i].ok
    THEN f[1].val * 3600000 + f[2].val * 60000 + f[3].val * 1000
    ELSE 0

\* _parse_time: "HH:MM:SS,mmm" to seconds, here in milliseconds; any
\* ValueError (wrong number of fields, a field that int() rejects) gives 0.0
TimeOfFields(f) ==
    IF \A i \in 1..4 : f[i].ok
    THEN f[1].val * 3600000 + f[2].val * 60000 + f[3].val * 1000 + f[4].val
    ELSE 0

\* hours and minutes, then seconds and milliseconds from the split at ","
TimeOfParts(parts) ==
    IF Len(parts) # 4 THEN 0
    ELSE TimeOfFields([i \in 1..4 |-> ParseInt(parts[i])])

TimeOfStripped(hms) ==
    IF Len(hms) # 3 THEN 0
    ELSE TimeOfParts(<<hms[1], hms[2]>> \o Split(hms[3], <<",">>))

ParseTime(time_str) == TimeOfStripped(Split(Strip(time_str), <<":">>))

Arrow == <<" ", "-", "-", ">", " ">>

\* the dict of one entry; times is timestamp.split(' --> '), and its missing
\* second element raises IndexError, which drops the block
EntryOfTimes(num, timestamp, text, times) ==
    IF Len(times) < 2 THEN <<>>
    ELSE << [number     |-> num.val,
             timestamp  |-> timestamp,
             text       |-> text,
             start_time |-> ParseTime(times[1]),
             end_time   |-> ParseTime(times[2])] >>

\* int(lines[0].strip()) raising ValueError drops the block; so does a text
\* that is empty after strip
EntryOfFields(num, timestamp, text) ==
    IF ~num.ok THEN <<>>
    ELSE IF Strip(text) = <<>> THEN <<>>
    ELSE EntryOfTimes(num, timestamp, text, Split(timestamp, Arrow))

EntryOfLines(lines) ==
    IF Len(lines) < 3 THEN <<>>
    ELSE EntryOfFields(ParseInt(Strip(lines[1])), Strip(lines[2]),
                       Join(SubSeq(lines, 3, Len(lines)), <<NL>>))

EntryOfStripped(stripped) ==
    IF stripped = <<>> THEN <<>> ELSE EntryOfLines(Split(stripped, <<NL>>))

\* the body of the loop of parse for one block: the subtitles the block adds
\* (none for a skipped block)
ParseBlock(block) == EntryOfStripped(Strip(block))

RECURSIVE ParseBlocksAborting(_)
\* a variant of the loop of parse that stops at the first block that gives
\* no entry
ParseBlocksAborting(blocks) ==
    IF Len(blocks) = 0 THEN <<>>
    ELSE IF ParseBlock(blocks[1]) = <<>> THEN <<>>
    ELSE ParseBlock(blocks[1]) \o ParseBlocksAborting(Tail(blocks))

RECURSIVE ParseBlocks(_)
ParseBlocks(blocks) ==
    IF Len(blocks) = 0 THEN <<>>
    ELSE ParseBlock(blocks[1]) \o ParseBlocks(Tail(blocks))

\* what parse appends to self.subtitles for a file of this content
ParseContent(content) ==
    LET s == Strip(content) IN ParseBlocks(ReSplitBlank(s, 1))

-----------------------------------------------------------------------------
(* junk_patterns.py and re.search.  A pattern is a sequence of atoms: an   *)
(* anchor, a literal string, or a character class with the least and the   *)
(* greatest number of repetitions (Unbounded for * and +).                 *)

Unbounded == 0 - 1

Opt(set)   == [t |-> "chars", c |-> set, lo |-> 0, hi |-> 1]
Dot        == [t |-> "dot",   c |-> {},  lo |-> 1, hi |-> 1]
DotStar    == [t |-> "dot",   c |-> {},  lo |-> 0, hi |-> Unbounded]
SpaceStar  == [t |-> "space", c |-> {},  lo |-> 0, hi |-> Unbounded]
DigitPlus  == [t |-> "digit", c |-> {},  lo |-> 1, hi |-> Unbounded]
Digit4     == [t |-> "digit", c |-> {},  lo |-> 4, hi |-> 4]
Bol        == [t |-> "bol",   c |-> {},  lo |-> 0, hi |-> 0]
Eol        == [t |-> "eol",   c |-> {},  lo |-> 0, hi |-> 0]

\* a literal string of the pattern
Lit(s)     == [t |-> "lit",   c |-> s,   lo |-> 0, hi |-> 0]

\* r'sous.titrage.*st[\'"]?\s*\d+'
Pattern1 ==
    << Lit(<<"s", "o", "u", "s">>),
       Dot,
       Lit(<<"t", "i", "t", "r", "a", "g", "e">>),
       DotStar,
       Lit(<<"s", "t">>),
       Opt({"'", "\""}),
       SpaceStar,
       DigitPlus >>

\* r'sous.titrage.*par.*amara\.org'
Pattern2 ==
    << Lit(<<"s", "o", "u", "s">>),
       Dot,
       Lit(<<"t", "i", "t", "r", "a", "g", "e">>),
       DotStar,
       Lit(<<"p", "a", "r">>),
       DotStar,
       Lit(<<"a", "m", "a", "r", "a", ".", "o", "r", "g">>) >>

\* r'sous.titrage.*fr'
Pattern3 ==
    << Lit(<<"s", "o", "u", "s">>),
       Dot,
       Lit(<<"t", "i", "t", "r", "a", "g", "e">>),
       DotStar,
       Lit(<<"f", "r">>) >>

\* r'sous.titrage.*fr.*\d{4}'
Pattern4 ==
    << Lit(<<"s", "o", "u", "s">>),
       Dot,
       Lit(<<"t", "i", "t", "r", "a", "g", "e">>),
       DotStar,
       Lit(<<"f", "r">>),
       DotStar,
       Digit4 >>

\* r'^Sous-titrage Société Radio-Canada$'
Pattern5 ==
    << Bol,
       Lit(<<"S", "o", "u", "s", "-", "t", "i", "t", "r", "a", "g",
            "e", " ", "S", "o", "c", "i", "é", "t", "é", " ", "R",
            "a", "d", "i", "o", "-", "C", "a", "n", "a", "d", "a">>),
       Eol >>

\* r'^Sous-titrage MFP\.$'
Pattern6 ==
    << Bol,
       Lit(<<"S", "o", "u", "s", "-", "t", "i", "t", "r", "a", "g",
            "e", " ", "M", "F", "P", ".">>),
       Eol >>

\* r'^Abonnez-vous!$'
Pattern7 ==
    << Bol,
       Lit(<<"A", "b", "o", "n", "n", "e", "z", "-", "v", "o", "u",
            "s", "!">>),
       Eol >>

\* r"^Merci d'avoir regardé cette vidéo !$"
Pattern8 ==
    << Bol,
       Lit(<<"M", "e", "r", "c", "i", " ", "d", "'", "a", "v", "o",
            "i", "r", " ", "r", "e", "g", "a", "r", "d", "é", " ",
            "c", "e", "t", "t", "e", " ", "v", "i", "d", "é", "o",
            " ", "!">>),
       Eol >>

\* r'^Merci à tous$'
Pattern9 ==
    << Bol,
       Lit(<<"M", "e", "r", "c", "i", " ", "à", " ", "t", "o", "u",
            "s">>),
       Eol >>

JUNK_PATTERNS ==
    <<Pattern1, Pattern2, Pattern3, Pattern4, Pattern5,
      Pattern6, Pattern7, Pattern8, Pattern9>>

\* whether character c is in the class of atom a; with re.IGNORECASE a
\* letter matches in either case
InClass(a, c, ignorecase) ==
    CASE a.t = "chars" -> IF ignorecase
                          THEN \E x \in a.c : LowerChar(x) = LowerChar(c)
                          ELSE c \in a.c
      [] a.t = "dot"   -> c # NL
      [] a.t = "space" -> IsSpace(c)
      [] a.t = "digit" -> IsDigit(c)
      [] OTHER         -> FALSE

\* whether the literal lit occurs in the text at offset i
LitAt(lit, text, i, ignorecase) ==
    /\ i + Len(lit) - 1 <= Len(text)
    /\ \A k \in 1..Len(lit) :
           IF ignorecase THEN LowerChar(text[i + k - 1]) = LowerChar(lit[k])
           ELSE text[i + k - 1] = lit[k]

\* how many characters from offset i on are in the class of a, at most a.hi
ClassRun(a, text, i, ignorecase) ==
    LET rest == Len(text) - i + 1
        cap  == IF a.hi = Unbounded \/ a.hi > rest THEN rest ELSE a.hi
    IN  CHOOSE n \in 0..cap :
            /\ n = cap \/ ~InClass(a, text[i + n], ignorecase)
            /\ \A k \in i..(i + n - 1) : InClass(a, text[k], ignorecase)

RECURSIVE MatchAt(_, _, _, _, _)
\* whether atoms k.. of the pattern match the text from offset i on
MatchAt(pat, k, text, i, ignorecase) ==
    IF k > Len(pat) THEN TRUE
    ELSE LET a == pat[k]
         IN  CASE a.t = "bol" ->
                    i = 1 /\ MatchAt(pat, k + 1, text, i, ignorecase)
               [] a.t = "eol" ->
                    /\ \/ i = Len(text) + 1
                       \/ i = Len(text) /\ text[i] = NL
                    /\ MatchAt(pat, k + 1, text, i, ignorecase)
               [] a.t = "lit" ->
                    /\ LitAt(a.c, text, i, ignorecase)
                    /\ MatchAt(pat, k + 1, text, i + Len(a.c), ignorecase)
               [] OTHER ->
                    LET run == ClassRun(a, text, i, ignorecase)
                    IN  \E n \in a.lo..run :
                            MatchAt(pat, k + 1, text, i + n, ignorecase)

\* re.search(pattern, text[, re.IGNORECASE]) is not None
Search(pat, text, ignorecase) ==
    \E i \in 1..(Len(text) + 1) : MatchAt(pat, 1, text, i, ignorecase)

-----------------------------------------------------------------------------
(* clean_whisperx_output.py: the classifier, the rewriter, serialization.  *)

RECURSIVE FirstJunkPattern(_, _)
\* the inner loop of find_phony_subtitles: the index of the first pattern
\* that the text matches (the loop breaks there), 0 when none does
FirstJunkPattern(text, k) ==
    IF k > Len(JUNK_PATTERNS) THEN 0
    ELSE IF Search(JUNK_PATTERNS[k], text, TRUE) THEN k
    ELSE FirstJunkPattern(text, k + 1)

\* a variant of the outer loop's iteration whose inner loop has no break: the
\* subtitle is appended once for each pattern that matches it
PhonyOfNoBreak(subtitle) ==
    LET text == Strip(Lower(subtitle.text))
        hits == {k \in 1..Len(JUNK_PATTERNS) :
                     Search(JUNK_PATTERNS[k], text, TRUE)}
    IN  [i \in 1..Cardinality(hits) |-> subtitle]

\* what one iteration of the outer loop appends to phony_subtitles
PhonyOf(subtitle) ==
    LET text == Strip(Lower(subtitle.text))
    IN  IF FirstJunkPattern(text, 1) # 0 THEN <<subtitle>> ELSE <<>>

RECURSIVE FindPhony(_)
\* find_phony_subtitles over self.srt_file.subtitles
FindPhony(subtitles) ==
    IF Len(subtitles) = 0 THEN <<>>
    ELSE PhonyOf(subtitles[1]) \o FindPhony(Tail(subtitles))

\* a variant of the membership test that compares the numbers only
NotInByNumber(sub, phony) ==
    \A j \in 1..Len(phony) : phony[j].number # sub.number

\* a variant of the membership test that compares the timing lines only
NotInByTimestamp(sub, phony) ==
    \A j \in 1..Len(phony) : phony[j].timestamp # sub.timestamp

\* `sub not in phony`: list membership compares the dicts field by field
NotIn(sub, phony) == \A j \in 1..Len(phony) : phony[j] # sub

\* the positions of subtitles that remove_junk_subtitles keeps
KeptPositions(subtitles, phony) ==
    {i \in 1..Len(subtitles) : NotIn(subtitles[i], phony)}

\* a variant of the filter that removes nothing
KeepAllSubtitles(subtitles, phony) == subtitles

\* subtitles_out before renumbering
Survivors(subtitles, phony) ==
    SelectSeq(subtitles, LAMBDA sub : NotIn(sub, phony))

\* `for i, subtitle in enumerate(subtitles_out, 1): subtitle['number'] = i`
Renumber(subtitles_out) ==
    [i \in 1..Len(subtitles_out) |-> [subtitles_out[i] EXCEPT !.number = i]]

\* the value remove_junk_subtitles returns
RemoveJunk(subtitles, phony) ==
    IF Len(phony) = 0
    THEN [removed_count |-> 0, subtitles_sans_bad_output |-> <<>>,
          empty_string_count |-> 0]
    ELSE LET subtitles_out == Renumber(Survivors(subtitles, phony))
         IN  [removed_count |-> Len(phony),
              subtitles_sans_bad_output |-> subtitles_out,
              empty_string_count |->
                  Cardinality({i \in 1..Len(subtitles_out) :
                                   subtitles_out[i].text = <<>>})]

\* a variant of the renumbering that also stores the trimmed text
RenumberedAndTrimmed(subtitles, phony) ==
    IF Len(phony) = 0 THEN subtitles
    ELSE LET kept == KeptPositions(subtitles, phony)
         IN  [i \in 1..Len(subtitles) |->
                 IF i \in kept
                 THEN [subtitles[i] EXCEPT
                          !.number = Cardinality({j \in kept : j <= i}),
                          !.text = Strip(@)]
                 ELSE subtitles[i]]

\* self.srt_file.subtitles after remove_junk_subtitles: the renumbering
\* assigns to the dicts that this list holds too, so the kept entries carry
\* their new numbers and the others are as they were
RenumberedInPlace(subtitles, phony) ==
    IF Len(phony) = 0 THEN subtitles
    ELSE LET kept == KeptPositions(subtitles, phony)
         IN  [i \in 1..Len(subtitles) |->
                 IF i \in kept
                 THEN [subtitles[i] EXCEPT
                          !.number = Cardinality({j \in kept : j <= i})]
                 ELSE subtitles[i]]

RECURSIVE PrepareLinesNoBlank(_)
\* a variant of the serialization without the empty line between subtitles
PrepareLinesNoBlank(subtitles) ==
    IF Len(subtitles) = 0 THEN <<>>
    ELSE <<IntToStr(subtitles[1].number), subtitles[1].timestamp,
           subtitles[1].text>> \o PrepareLinesNoBlank(Tail(subtitles))

RECURSIVE PrepareLines(_)
PrepareLines(subtitles) ==
    IF Len(subtitles) = 0 THEN <<>>
    ELSE <<IntToStr(subtitles[1].number), subtitles[1].timestamp,
           subtitles[1].text, <<>> >> \o PrepareLines(Tail(subtitles))

\* a variant that leaves the last empty line in the list
KeepLastEmpty(cleaned_content) == cleaned_content

\* prepare_cleaned_content_for_write: the list of lines to write
\* `if cleaned_content and cleaned_content[-1] == "": cleaned_content.pop()`
PopLastEmpty(cleaned_content) ==
    IF Len(cleaned_content) > 0
       /\ cleaned_content[Len(cleaned_content)] = <<>>
    THEN SubSeq(cleaned_content, 1, Len(cleaned_content) - 1)
    ELSE cleaned_content

PrepareCleanedContent(cleaned_subtitles) ==
    PopLastEmpty(PrepareLines(cleaned_subtitles))

-----------------------------------------------------------------------------
(* shared_utils.py and the os.path functions the program calls.            *)

\* str.rfind(c): the last offset holding character c, else 0
RFind(s, c) ==
    LET n == CHOOSE n \in 0..Len(s) :
                 /\ n = Len(s) \/ s[Len(s) - n] = c
                 /\ \A k \in (Len(s) - n + 1)..Len(s) : s[k] # c
    IN  Len(s) - n

\* os.path.basename
Basename(path) == SubSeq(path, RFind(path, "/") + 1, Len(path))

\* os.path.splitext(path)[0]: the path up to the last dot of its last
\* component; the leading dots of that component are not an extension
SplitExtRoot(path) ==
    LET sepIndex == RFind(path, "/")
        dotIndex == RFind(path, ".")
    IN  IF dotIndex > sepIndex
           /\ \E k \in (sepIndex + 1)..(dotIndex - 1) : path[k] # "."
        THEN SubSeq(path, 1, dotIndex - 1)
        ELSE path

\* base_name[:-4]
remove_srt_extension(base_name) == SubSeq(base_name, 1, Len(base_name) - 4)

InputMarker == <<"-", "i", "n", "p", "u", "t">>

CleanedEnding ==
    <<" ", "-", " ", "c", "l", "e", "a", "n", "e", "d", ".", "s", "r", "t">>

empty_log_ending ==
    <<" ", "-", " ", "e", "m", "p", "t", "y", "_", "l", "o", "g",
      ".", "t", "x", "t">>

filled_log_ending ==
    <<" ", "-", " ", "c", "l", "e", "a", "n", "e", "r", "_", "l", "o", "g",
      ".", "t", "x", "t">>

SrtExt == <<".", "s", "r", "t">>

TxtExt == <<".", "t", "x", "t">>

swap(base_name) == Split(base_name, InputMarker)[1] \o CleanedEnding

\* a variant of the naming that gives the extension back and nothing more
make_same_srt_filename(base_name) == base_name \o SrtExt

make_cleaned_srt_filename(base_name) ==
    IF Contains(base_name, InputMarker) THEN swap(base_name)
    ELSE base_name \o CleanedEnding

make_empty_log_filename(base) == base \o empty_log_ending

make_log_with_cleaned_lines(base) == base \o filled_log_ending

-----------------------------------------------------------------------------
(* Files.  open(path, 'w') replaces the content, open(path, 'a') adds to   *)
(* it and creates the file when it is missing.                             *)

Exists(files, path) == path \in DOMAIN files

\* what the files hold at the path of a directory, which is no str
Directory == <<"directory">>

\* open(path) raises IsADirectoryError
IsDirectory(files, path) == Exists(files, path) /\ files[path] = Directory

\* str(e) for the IsADirectoryError that open(path) raises
DirectoryError(path) ==
    <<"[", "E", "r", "r", "n", "o", " ", "2", "1", "]", " ", "I", "s", " ",
      "a", " ", "d", "i", "r", "e", "c", "t", "o", "r", "y", ":", " ", "'">>
    \o path \o <<"'">>

WriteFile(files, path, content) ==
    [p \in DOMAIN files \cup {path} |-> IF p = path THEN content ELSE files[p]]

\* a variant of open(path, "a") that truncates the file as "w" does
AppendTruncating(files, path, content) ==
    WriteFile(files, path, content)

\* `with open(path, "a") as v: v.write(...)`
AppendFile(files, path, content) ==
    WriteFile(files, path,
              IF Exists(files, path) THEN files[path] \o content ELSE content)

RECURSIVE LogLines(_)
\* `for sub in phony_subtitles: f.write(sub["text"]); f.write("\n")`
LogLines(phony) ==
    IF Len(phony) = 0 THEN <<>>
    ELSE phony[1].text \o <<NL>> \o LogLines(Tail(phony))

\* a variant that names the log of removed lines also when none was removed
LogNameAlwaysFilled(phony, input_srt_path) ==
    make_log_with_cleaned_lines(remove_srt_extension(input_srt_path))

\* create_phony_subtitles_log: the name of the per-file log
LogName(phony, input_srt_path) ==
    LET base_filename == remove_srt_extension(input_srt_path)
    IN  IF Len(phony) = 0 THEN make_empty_log_filename(base_filename)
        ELSE make_log_with_cleaned_lines(base_filename)

using_batch_log_file(main_log) ==
    main_log # <<>> /\ EndsWith(main_log, TxtExt)

\* create_phony_subtitles_log: the files after it
FilesAfterLog(files, phony, input_srt_path, main_log) ==
    LET logged == WriteFile(files, LogName(phony, input_srt_path),
                            LogLines(phony))
    IN  IF using_batch_log_file(main_log)
        THEN AppendFile(logged, main_log, LogLines(phony))
        ELSE logged

\* create_phony_subtitles_log: the files it opens, in order
OpenedByLog(phony, input_srt_path, main_log) ==
    <<[path |-> LogName(phony, input_srt_path), mode |-> "w"]>>
    \o IF using_batch_log_file(main_log)
       THEN <<[path |-> main_log, mode |-> "a"]>> ELSE <<>>

\* create_phony_subtitles_log when with_logging: the files after it, the
\* files it opened, and the path whose open raised (none: <<>>); the per-file
\* log is written before the batch log is opened
LogStep(files, phony, input_srt_path, main_log, with_logging) ==
    IF ~with_logging
    THEN [fs |-> files, opened |-> <<>>, raised_at |-> <<>>]
    ELSE IF IsDirectory(files, LogName(phony, input_srt_path))
    THEN [fs |-> files, opened |-> <<>>,
          raised_at |-> LogName(phony, input_srt_path)]
    ELSE IF using_batch_log_file(main_log) /\ IsDirectory(files, main_log)
    THEN [fs |-> WriteFile(files, LogName(phony, input_srt_path),
                           LogLines(phony)),
          opened |-> <<[path |-> LogName(phony, input_srt_path),
                        mode |-> "w"]>>,
          raised_at |-> main_log]
    ELSE [fs |-> FilesAfterLog(files, phony, input_srt_path, main_log),
          opened |-> OpenedByLog(phony, input_srt_path, main_log),
          raised_at |-> <<>>]

\* save_cleaned_file: the path it writes
CleanedPath(filepath) == make_cleaned_srt_filename(SplitExtRoot(filepath))

-----------------------------------------------------------------------------
(* The inputs: documents made of at most MaxBlocks blocks of a pool, and   *)
(* the paths the operations are called with.                               *)

MaxBlocks == 2

\* a well-formed entry
Block1 ==
    <<"1", NL, "0", ":", "0", ":", "1", ",", "5", " ", "-", "-", ">",
      " ", "0", ":", "0", ":", "2", ",", "0", NL, "h", "i">>

\* junk for Pattern3 and Pattern4, numbered 3
Block2 ==
    <<"3", NL, "0", ":", "0", ":", "1", ",", "5", " ", "-", "-", ">",
      " ", "0", ":", "0", ":", "2", ",", "0", NL, "S", "o", "u", "s",
      "-", "t", "i", "t", "r", "a", "g", "e", " ", "F", "R", " ", "2",
      "0", "2", "1">>

\* not junk: two lines of text, numbered 3 too
Block3 ==
    <<"3", NL, "0", ":", "0", ":", "1", ",", "5", " ", "-", "-", ">",
      " ", "0", ":", "0", ":", "2", ",", "0", NL, " ", "h", "i", " ",
      NL, "M", "e", "r", "c", "i", " ", "à", " ", "t", "o", "u", "s">>

\* junk for Pattern9
Block4 ==
    <<"2", NL, "0", ":", "0", ":", "1", ",", "5", " ", "-", "-", ">",
      " ", "0", ":", "0", ":", "2", ",", "0", NL, "M", "e", "r", "c",
      "i", " ", "à", " ", "t", "o", "u", "s">>

\* an arrow without spaces around it
Block5 ==
    <<"4", NL, "0", ":", "0", ":", "1", ",", "5", "-", "-", ">", "0",
      ":", "0", ":", "2", ",", "0", NL, "h", "i">>

\* a first line that is no integer
Block6 ==
    <<"x", NL, "0", ":", "0", ":", "1", ",", "5", " ", "-", "-", ">",
      " ", "0", ":", "0", ":", "2", ",", "0", NL, "h", "i">>

\* no text
Block7 ==
    <<"6", NL, "0", ":", "0", ":", "1", ",", "5", " ", "-", "-", ">",
      " ", "0", ":", "0", ":", "2", ",", "0">>

\* a start time that is no time
Block8 ==
    <<"7", NL, "x", " ", "-", "-", ">", " ", "0", ":", "0", ":", "2",
      ",", "0", NL, "h", "i">>

BlockPool ==
    <<Block1, Block2, Block3, Block4, Block5, Block6, Block7, Block8>>

\* the blocks separated by an empty line, or by a line holding a space with
\* a newline before the first block and after the last
Document(blocks, spaced) ==
    IF spaced THEN <<NL>> \o Join(blocks, <<NL, " ", NL>>) \o <<NL>>
    ELSE Join(blocks, <<NL, NL>>)

Picks == UNION {[1..n -> 1..Len(BlockPool)] : n \in 0..MaxBlocks}

Documents ==
    {Document([i \in 1..Len(pick) |-> BlockPool[pick[i]]], spaced) :
        pick \in Picks, spaced \in BOOLEAN}

InputA ==
    <<"a", "-", "i", "n", "p", "u", "t", ".", "s", "r", "t">>

NotSrt ==
    <<"a", ".", "t", "x", "t">>

Missing ==
    <<"n", ".", "s", "r", "t">>

MainLog ==
    <<"m", ".", "t", "x", "t">>

CallPaths == {InputA, NotSrt, Missing}

-----------------------------------------------------------------------------
(* The state after start-up, and clean_srt_file.                           *)

NoCall == [op |-> "none"]

NoResult == [returned |-> "nothing"]

\* the dict {} that clean_srt_file returns for a path it refuses
EmptyResult == [returned |-> "empty"]

NoLocals == [at |-> "none"]

NoObject == [constructed |-> FALSE]

NoRemoval == [returned |-> "nothing"]

Init ==
    /\ \E doc \in Documents : fs = (InputA :> doc) @@ (NotSrt :> doc)
    /\ current_main_log_file \in {<<>>, MainLog}
    /\ call = NoCall
    /\ result = NoResult
    /\ locals = NoLocals
    /\ opened = <<>>
    /\ srt_file = NoObject
    /\ phony_subtitles = <<>>
    /\ removal_result = NoRemoval

\* a variant of the except clause that lets the exception go to the caller
Propagated(files, logs, path, at) ==
    [fs     |-> files,
     opened |-> logs,
     result |-> [returned |-> "raised", error |-> DirectoryError(at)],
     locals |-> [at |-> "raised"]]

\* the except clause of clean_srt_file, for the exception that open raised
\* on the path at: the files and the files opened are as the try left them
Failed(files, logs, path, at) ==
    [fs     |-> files,
     opened |-> logs,
     result |-> [returned |-> "failure",
                 filename |-> Basename(path),
                 filepath |-> path,
                 success  |-> FALSE,
                 error    |-> DirectoryError(at)],
     locals |-> [at |-> "except"]]

\* the return of clean_srt_file and what it leaves behind: final is
\* srt_file.subtitles at the return, content the lines written to cleaned
CleanReturn(files, logs, path, parsed, phony, removal, final, content, cleaned) ==
    LET common == [returned       |-> "success",
                   filename       |-> Basename(path),
                   filepath       |-> path,
                   subtitle_count |-> Len(final),
                   phony_count    |-> Len(phony),
                   cleaned_file   |-> cleaned,
                   success        |-> TRUE]
    IN  [fs     |-> WriteFile(files, cleaned, Join(content, <<NL>>)),
         opened |-> logs \o <<[path |-> cleaned, mode |-> "w"]>>,
         result |-> IF Len(phony) > 0
                    THEN common @@ [empty_string_count |->
                                        removal.empty_string_count]
                    ELSE common,
         locals |-> [at |-> "return", parsed |-> parsed,
                     phony_subtitles |-> phony, removal_result |-> removal,
                     subtitles |-> final, cleaned_content |-> content]]

\* prepare_cleaned_content_for_write and save_cleaned_file, on the list
\* remove_junk_subtitles returned or, through save_without_changes, on
\* srt_file.subtitles as parsed; open raises when the path of the cleaned
\* file is a directory
CleanSave(files, logs, input_file_path, parsed, phony, removal, final) ==
    IF IsDirectory(files, CleanedPath(input_file_path))
    THEN Failed(files, logs, input_file_path, CleanedPath(input_file_path))
    ELSE CleanReturn(files, logs, input_file_path, parsed, phony, removal,
                     final, PrepareCleanedContent(final),
                     CleanedPath(input_file_path))

\* the branch on phony_subtitles
CleanBranch(files, logs, input_file_path, parsed, phony, removal) ==
    CleanSave(files, logs, input_file_path, parsed, phony, removal,
              IF Len(phony) > 0 THEN removal.subtitles_sans_bad_output
              ELSE parsed)

\* after create_phony_subtitles_log: the except clause when it raised, else
\* remove_junk_subtitles
CleanLogged(logged, input_file_path, parsed, phony) ==
    IF logged.raised_at # <<>>
    THEN Failed(logged.fs, logged.opened, input_file_path, logged.raised_at)
    ELSE CleanBranch(logged.fs, logged.opened, input_file_path, parsed,
                     phony, RemoveJunk(parsed, phony))

\* create_phony_subtitles_log when with_logging
CleanFound(files, main_log, input_file_path, with_logging, parsed, phony) ==
    CleanLogged(LogStep(files, phony, input_file_path, main_log,
                        with_logging),
                input_file_path, parsed, phony)

\* find_phony_subtitles on the parsed subtitles
CleanParsed(files, main_log, input_file_path, with_logging, parsed) ==
    CleanFound(files, main_log, input_file_path, with_logging, parsed,
               FindPhony(parsed))

\* the body of the try block of clean_srt_file: open raises in parse when
\* the path is a directory
CleanBody(files, main_log, input_file_path, with_logging) ==
    IF IsDirectory(files, input_file_path)
    THEN Failed(files, <<>>, input_file_path, input_file_path)
    ELSE CleanParsed(files, main_log, input_file_path, with_logging,
                     ParseContent(files[input_file_path]))

\* a variant of clean_srt_file without the check of the extension
CleanOutcomeAnyExtension(files, main_log, input_file_path, with_logging) ==
    IF ~Exists(files, input_file_path)
    THEN [fs |-> files, opened |-> <<>>, result |-> EmptyResult,
          locals |-> NoLocals]
    ELSE CleanBody(files, main_log, input_file_path, with_logging)

\* clean_srt_file from its first line to its return
CleanOutcome(files, main_log, input_file_path, with_logging) ==
    IF ~Exists(files, input_file_path)
       \/ ~EndsWith(input_file_path, SrtExt)
    THEN [fs |-> files, opened |-> <<>>, result |-> EmptyResult,
          locals |-> NoLocals]
    ELSE CleanBody(files, main_log, input_file_path, with_logging)

Returns(outcome) ==
    /\ fs' = outcome.fs
    /\ opened' = outcome.opened
    /\ result' = outcome.result
    /\ locals' = outcome.locals

clean_srt_file(input_file_path, dry_run, with_logging) ==
    /\ call' = [op |-> "clean_srt_file",
                input_file_path |-> input_file_path,
                dry_run |-> dry_run, with_logging |-> with_logging]
    /\ Returns(CleanOutcome(fs, current_main_log_file, input_file_path,
                            with_logging))
    /\ UNCHANGED <<current_main_log_file, srt_file, phony_subtitles,
                   removal_result>>

\* one run of the command-line program: clean_srt_file is called once
Next ==
    /\ call.op = "none"
    /\ \E input_file_path \in CallPaths, dry_run \in BOOLEAN,
          with_logging \in BOOLEAN :
           clean_srt_file(input_file_path, dry_run, with_logging)

Spec == Init /\ [][Next]_vars

\* the paths clean_srt_file opens for InputA
OpenedPaths ==
    {InputA, CleanedPath(InputA), MainLog,
     make_empty_log_filename(remove_srt_extension(InputA)),
     make_log_with_cleaned_lines(remove_srt_extension(InputA))}

\* a start with a directory at one of the paths that clean_srt_file opens
InitFail ==
    /\ \E doc \in Documents, blocked \in OpenedPaths :
           fs = (blocked :> Directory) @@ (InputA :> doc)
    /\ current_main_log_file \in {<<>>, MainLog}
    /\ call = NoCall
    /\ result = NoResult
    /\ locals = NoLocals
    /\ opened = <<>>
    /\ srt_file = NoObject
    /\ phony_subtitles = <<>>
    /\ removal_result = NoRemoval

SpecFail == InitFail /\ [][Next]_vars

\* a file in a directory
PathInDir ==
    <<"d", "/", "b", ".", "s", "r", "t">>

\* a directory whose name holds the marker
PathMarkedDir ==
    <<"d", "-", "i", "n", "p", "u", "t", "/", "b", ".", "s", "r", "t">>

\* a name that holds the marker twice
PathMarkedTwice ==
    <<"d", "/", "a", "-", "i", "n", "p", "u", "t", "-", "i", "n", "p", "u",
      "t", ".", "s", "r", "t">>

\* a name that ends as a cleaned file does
PathCleaned ==
    <<"a", " ", "-", " ", "c", "l", "e", "a", "n", "e", "d", ".", "s", "r",
      "t">>

\* a name that is the extension alone
PathDotSrt ==
    <<"d", "/", ".", "s", "r", "t">>

NamePaths ==
    {InputA, PathInDir, PathMarkedDir, PathMarkedTwice, PathCleaned,
     PathDotSrt}

\* a start with the same document at each of the paths
InitNames ==
    /\ \E doc \in Documents : fs = [p \in NamePaths |-> doc]
    /\ current_main_log_file \in {<<>>, MainLog}
    /\ call = NoCall
    /\ result = NoResult
    /\ locals = NoLocals
    /\ opened = <<>>
    /\ srt_file = NoObject
    /\ phony_subtitles = <<>>
    /\ removal_result = NoRemoval

\* one run of the command-line program on one of the paths
NextNames ==
    /\ call.op = "none"
    /\ \E input_file_path \in NamePaths, dry_run \in BOOLEAN,
          with_logging \in BOOLEAN :
           clean_srt_file(input_file_path, dry_run, with_logging)

SpecNames == InitNames /\ [][NextNames]_vars

-----------------------------------------------------------------------------
(* The classes used directly, as the tests use them: SRTFile(path), then   *)
(* parse, then SrtCleaner(srt_file).find_phony_subtitles and               *)
(* remove_junk_subtitles.                                                  *)

\* SRTFile.__init__
SRTFile(input_filepath) ==
    /\ call.op = "none"
    /\ call' = [op |-> "SRTFile", raised |-> FALSE]
    /\ srt_file' = [constructed      |-> TRUE,
                    filepath         |-> input_filepath,
                    filename         |-> Basename(input_filepath),
                    subtitles        |-> <<>>,
                    original_content |-> <<>>]
    /\ UNCHANGED <<fs, current_main_log_file, result, locals, opened,
                   phony_subtitles, removal_result>>

\* a variant of parse that starts from an empty list
AfterParseClearing(object, content) ==
    [object EXCEPT !.original_content = content,
                   !.subtitles = ParseContent(content)]

\* the object after parse has read content: original_content is assigned,
\* and each entry is appended to self.subtitles, which parse never empties
AfterParse(object, content) ==
    [object EXCEPT !.original_content = content,
                   !.subtitles = @ \o ParseContent(content)]

\* SRTFile.parse: open raises FileNotFoundError for a missing file and
\* IsADirectoryError for a directory
parse ==
    /\ call.op = "SRTFile"
    /\ IF Exists(fs, srt_file.filepath) /\ ~IsDirectory(fs, srt_file.filepath)
       THEN /\ call' = [op |-> "parse", raised |-> FALSE]
            /\ srt_file' = AfterParse(srt_file, fs[srt_file.filepath])
       ELSE /\ call' = [op |-> "parse", raised |-> TRUE]
            /\ UNCHANGED srt_file
    /\ UNCHANGED <<fs, current_main_log_file, result, locals, opened,
                   phony_subtitles, removal_result>>

\* SrtCleaner.find_phony_subtitles
find_phony_subtitles ==
    /\ call.op = "parse" /\ ~call.raised
    /\ call' = [op |-> "find_phony_subtitles", raised |-> FALSE]
    /\ phony_subtitles' = FindPhony(srt_file.subtitles)
    /\ UNCHANGED <<fs, current_main_log_file, result, locals, opened,
                   srt_file, removal_result>>

\* the entries of subtitles at the positions of flagged, in order
Flagged(subtitles, flagged) ==
    LET Keep(i) == i \in flagged
        marked  == [i \in 1..Len(subtitles) |-> <<i, subtitles[i]>>]
        kept    == SelectSeq(marked, LAMBDA m : Keep(m[1]))
    IN  [i \in 1..Len(kept) |-> kept[i][2]]

\* SrtCleaner.remove_junk_subtitles, called with the entries at any set of
\* positions of the list
remove_junk_subtitles(flagged) ==
    /\ call.op \in {"parse", "find_phony_subtitles"} /\ ~call.raised
    /\ call' = [op |-> "remove_junk_subtitles", raised |-> FALSE,
                phony_subtitles |-> Flagged(srt_file.subtitles, flagged),
                subtitles |-> srt_file.subtitles]
    /\ removal_result' =
         [returned |-> "value"]
         @@ RemoveJunk(srt_file.subtitles,
                       Flagged(srt_file.subtitles, flagged))
    /\ srt_file' =
         [srt_file EXCEPT
            !.subtitles =
               RenumberedInPlace(srt_file.subtitles,
                                 Flagged(srt_file.subtitles, flagged))]
    /\ UNCHANGED <<fs, current_main_log_file, result, locals, opened,
                   phony_subtitles>>

NextApi ==
    \/ \E input_filepath \in {InputA, Missing} : SRTFile(input_filepath)
    \/ parse
    \/ find_phony_subtitles
    \/ /\ srt_file.constructed
       /\ \E flagged \in SUBSET (1..Len(srt_file.subtitles)) :
              remove_junk_subtitles(flagged)

SpecApi == Init /\ [][NextApi]_vars

-----------------------------------------------------------------------------
(* The properties of clean_srt_file (under Spec).                          *)

\* clean_srt_file returned the record of a processed file
Succeeded == result.returned = "success"

\* the entries a parse of the cleaned file gives
CleanedEntries == ParseContent(fs[result.cleaned_file])

\* some junk pattern is found in the lowercased, trimmed text of the entry
IsJunk(sub) ==
    \E k \in 1..Len(JUNK_PATTERNS) :
        Search(JUNK_PATTERNS[k], Strip(Lower(sub.text)), TRUE)

IsNotJunk(sub) == ~IsJunk(sub)

\* an entry without its number
Content(sub) ==
    [timestamp  |-> sub.timestamp,  text     |-> sub.text,
     start_time |-> sub.start_time, end_time |-> sub.end_time]

ContentOf(subtitles) == [i \in 1..Len(subtitles) |-> Content(subtitles[i])]

\* C1: whenever a file has been processed, the entries of the cleaned file
\* are numbered 1, 2, ..., in the order of the file, with or without junk
\* among the parsed entries.
C1_OutputNumbered ==
    Succeeded =>
        \A i \in 1..Len(CleanedEntries) : CleanedEntries[i].number = i

\* C4: whenever a file has been processed, the count of phony entries and
\* the count of entries left add up to the count of parsed entries, and so
\* do removed_count and the length of subtitles_sans_bad_output when junk
\* was found.
C4_CountConservation ==
    Succeeded =>
        /\ result.phony_count + result.subtitle_count = Len(locals.parsed)
        /\ Len(locals.phony_subtitles) > 0 =>
               locals.removal_result.removed_count
               + Len(locals.removal_result.subtitles_sans_bad_output)
               = Len(locals.parsed)

\* a file with junk entries and other entries has been processed
C4_Witness ==
    /\ Succeeded
    /\ result.phony_count > 0
    /\ result.subtitle_count > 0
    /\ \E i, j \in 1..Len(locals.parsed) :
           i # j /\ locals.parsed[i].number = locals.parsed[j].number

\* C5: a call of clean_srt_file on a path that does not exist or does not
\* end in ".srt" returns the empty result, leaves every file as it was and
\* opens none, whatever dry_run and with_logging are.
C5_RejectedInput ==
    [][(/\ call.op = "none"
        /\ call'.op = "clean_srt_file"
        /\ \/ ~Exists(fs, call'.input_file_path)
           \/ ~EndsWith(call'.input_file_path, SrtExt))
       => (result' = EmptyResult /\ fs' = fs /\ opened' = <<>>)]_vars

\* clean_srt_file was called with logging, in a batch with a main log, to
\* write changes, on an existing file that is not an .srt file
C5_Witness ==
    /\ call.op = "clean_srt_file"
    /\ call.input_file_path = NotSrt
    /\ Exists(fs, NotSrt)
    /\ call.with_logging /\ ~call.dry_run
    /\ current_main_log_file = MainLog

\* C6: after a call of clean_srt_file with dry_run = TRUE there is no
\* cleaned file.
C6_DryRunWritesNothing ==
    (call.op = "clean_srt_file" /\ call.dry_run) =>
        ~Exists(fs, CleanedPath(call.input_file_path))

C8_CleanedHasNoJunk ==
    Succeeded => FindPhony(CleanedEntries) = <<>>

\* a file with a junk entry and an entry that stays has been processed
C8_Witness ==
    /\ Succeeded
    /\ Len(locals.phony_subtitles) > 0
    /\ Len(CleanedEntries) > 0

-----------------------------------------------------------------------------
(* The properties of the parser, the classifier and the rewriter (under    *)
(* SpecApi).                                                               *)

\* C2: remove_junk_subtitles, called on the entries S with any flagged
\* entries F of S, F empty included, returns as subtitles_sans_bad_output the
\* entries of S that are not in F, in their order.
C2_SurvivorsReturned ==
    call.op = "remove_junk_subtitles" =>
        ContentOf(removal_result.subtitles_sans_bad_output)
        = ContentOf(SelectSeq(call.subtitles,
                              LAMBDA sub : \A j \in 1..Len(call.phony_subtitles) :
                                               call.phony_subtitles[j] # sub))

\* C3: find_phony_subtitles returns the entries of the list that are junk,
\* in the order of the list, each once.
C3_Classifier ==
    call.op = "find_phony_subtitles" =>
        phony_subtitles = SelectSeq(srt_file.subtitles, IsJunk)

\* find_phony_subtitles has run on a list with an entry that two patterns
\* match and an entry that none matches
C3_Witness ==
    /\ call.op = "find_phony_subtitles"
    /\ \E i \in 1..Len(srt_file.subtitles) :
           \E k, m \in 1..Len(JUNK_PATTERNS) :
               /\ k # m
               /\ Search(JUNK_PATTERNS[k],
                         Strip(Lower(srt_file.subtitles[i].text)), TRUE)
               /\ Search(JUNK_PATTERNS[m],
                         Strip(Lower(srt_file.subtitles[i].text)), TRUE)
    /\ \E i \in 1..Len(srt_file.subtitles) : ~IsJunk(srt_file.subtitles[i])

\* the lines of the document that parse has read
DocLines == Split(srt_file.original_content, <<NL>>)

IsBlankLine(line) == Strip(line) = <<>>

\* the blocks of lines, each as the numbers of its first and last line: the
\* maximal runs of lines that are not blank
BlocksOf(lines) ==
    {b \in (1..Len(lines)) \X (1..Len(lines)) :
        /\ b[1] <= b[2]
        /\ \A k \in b[1]..b[2] : ~IsBlankLine(lines[k])
        /\ b[1] = 1 \/ IsBlankLine(lines[b[1] - 1])
        /\ b[2] = Len(lines) \/ IsBlankLine(lines[b[2] + 1])}

\* the blocks of the document
DocBlocks == BlocksOf(DocLines)

\* the blocks of at least 3 lines with an integer first line; the text of
\* such a block is not blank, being made of lines that are not blank
EntryBlocks ==
    {b \in DocBlocks : b[2] - b[1] >= 2 /\ ParseInt(DocLines[b[1]]).ok}

\* the position of block b among the entry blocks, in source order
EntryRank(b) == Cardinality({c \in EntryBlocks : c[1] <= b[1]})

\* C9: after parse the entries are those of the blocks of at least 3 lines
\* with an integer first line and a text that is not blank, one entry for
\* each such block, in source order.
C9_EntriesAreTheBlocks ==
    (call.op = "parse" /\ ~call.raised) =>
        /\ Len(srt_file.subtitles) = Cardinality(EntryBlocks)
        /\ \A b \in EntryBlocks :
               /\ srt_file.subtitles[EntryRank(b)].number
                  = ParseInt(DocLines[b[1]]).val
               /\ srt_file.subtitles[EntryRank(b)].timestamp
                  = Strip(DocLines[b[1] + 1])

HasDigit(s) == \E i \in 1..Len(s) : IsDigit(s[i])

\* C10: after parse every block of at least 3 lines with an integer first
\* line and a text that is not blank has its entry, with the timing line of
\* the block, whatever that line is; and a time bound of an entry is 0 when
\* its part of the timing line holds no digit.
C10_TimestampLenient ==
    (call.op = "parse" /\ ~call.raised) =>
        /\ \A b \in EntryBlocks :
               \E i \in 1..Len(srt_file.subtitles) :
                   srt_file.subtitles[i].timestamp = Strip(DocLines[b[1] + 1])
        /\ \A i \in 1..Len(srt_file.subtitles) :
               /\ ~HasDigit(Split(srt_file.subtitles[i].timestamp, Arrow)[1])
                  => srt_file.subtitles[i].start_time = 0
               /\ ~HasDigit(Split(srt_file.subtitles[i].timestamp, Arrow)[2])
                  => srt_file.subtitles[i].end_time = 0

\* the lines with the numbers of kept, in their order
LinesAt(lines, kept) ==
    [i \in 1..Cardinality(kept) |->
        lines[CHOOSE k \in kept : Cardinality({j \in kept : j <= k}) = i]]

\* lines without the lines of the blocks of malformed
LinesOutside(lines, malformed) ==
    LinesAt(lines, {k \in 1..Len(lines) :
                       \A b \in malformed : k < b[1] \/ k > b[2]})

\* the blocks of fewer than 3 lines or with a first line that is no integer
MalformedAmong(lines, blocks) ==
    {b \in blocks : b[2] - b[1] < 2 \/ ~ParseInt(lines[b[1]]).ok}

\* the document without the lines of its malformed blocks
DocWithoutMalformed ==
    Join(LinesOutside(DocLines, MalformedAmong(DocLines, DocBlocks)), <<NL>>)

-----------------------------------------------------------------------------
(* The properties of clean_srt_file when an open raises (under SpecFail).  *)

\* C12: a call of clean_srt_file on an existing path that ends in ".srt"
\* returns; when it does not return the record of a processed file, because
\* an open of the input, of a log or of the cleaned file raised, it returns
\* a record with success FALSE, an error message, filename and filepath; and
\* it returns the record of a processed file only when no open it made
\* could raise.
C12_FailureContained ==
    (/\ call.op = "clean_srt_file"
     /\ Exists(fs, call.input_file_path)
     /\ EndsWith(call.input_file_path, SrtExt)) =>
        /\ result.returned \in {"success", "failure"}
        /\ result.returned = "failure" =>
               /\ result.success = FALSE
               /\ result.error # <<>>
               /\ result.filename = Basename(call.input_file_path)
               /\ result.filepath = call.input_file_path
        /\ result.returned = "success" =>
               /\ ~IsDirectory(fs, call.input_file_path)
               /\ ~IsDirectory(fs, CleanedPath(call.input_file_path))
               /\ \A i \in 1..Len(opened) : ~IsDirectory(fs, opened[i].path)

\* an open raised after a log had been written
C12_Witness ==
    /\ call.op = "clean_srt_file"
    /\ result.returned = "failure"
    /\ Len(opened) > 0
    /\ \E i \in 1..Len(opened) : Exists(fs, opened[i].path)

-----------------------------------------------------------------------------
(* The properties of the names of the files (under SpecNames).             *)

\* the directory part of a path, with its separator
DirPart(path) == SubSeq(path, 1, RFind(path, "/"))

\* the name of the file without its 4 characters of extension
Stem(path) == SubSeq(Basename(path), 1, Len(Basename(path)) - 4)

\* the name of the cleaned file that the base name alone gives
CleanedName(stem) ==
    IF Contains(stem, InputMarker)
    THEN SubSeq(stem, 1, Find(stem, InputMarker, 1) - 1) \o CleanedEnding
    ELSE stem \o CleanedEnding

\* C13: the cleaned file of a processed file is in the directory of the
\* input, and its name is the base name of the input up to its first
\* "-input", or the whole base name when it has none, followed by
\* " - cleaned.srt".
C13_CleanedFileName ==
    Succeeded =>
        result.cleaned_file
        = DirPart(call.input_file_path)
          \o CleanedName(Stem(call.input_file_path))

\* C20: the cleaned file of a processed file is not the input file, and the
\* file opened last, to write the cleaned output, is not the input file.
C20_SourceNotOverwritten ==
    Succeeded =>
        /\ result.cleaned_file # call.input_file_path
        /\ opened[Len(opened)].path # call.input_file_path
        /\ opened[Len(opened)].mode = "w"
        /\ opened[Len(opened)].path = result.cleaned_file

\* a file whose name already ends in " - cleaned.srt" has been processed
C20_Witness ==
    /\ Succeeded
    /\ call.input_file_path = PathCleaned
    /\ EndsWith(call.input_file_path, CleanedEnding)


-----------------------------------------------------------------------------
(* A batch: clean_srt_file is called for one file after another in one     *)
(* process, with log files left by an earlier run.                         *)

InputB ==
    <<"b", ".", "s", "r", "t">>

\* a configured log path that does not end in ".txt"
OtherLog ==
    <<"m", ".", "l", "o", "g">>

\* what an earlier run left in a log file
OldLog ==
    <<"o", "l", "d", NL>>

BatchPaths == {InputA, InputB}

\* documents of good entries (Block1) and junk entries (Block2, Block4)
BatchDocuments ==
    {Document([i \in DOMAIN pick |-> BlockPool[pick[i]]], FALSE) :
        pick \in UNION {[1..n -> {1, 2, 4}] : n \in 0..MaxBlocks}}

\* documents of good entries (Block1) and junk entries of one kind (Block4)
BatchDocumentsB ==
    {Document([i \in DOMAIN pick |-> BlockPool[pick[i]]], FALSE) :
        pick \in UNION {[1..n -> {1, 4}] : n \in 0..MaxBlocks}}

LogPaths ==
    {MainLog, OtherLog,
     make_empty_log_filename(remove_srt_extension(InputA)),
     make_log_with_cleaned_lines(remove_srt_extension(InputA)),
     make_empty_log_filename(remove_srt_extension(InputB)),
     make_log_with_cleaned_lines(remove_srt_extension(InputB))}

InitBatch ==
    /\ \E docA \in BatchDocuments, docB \in BatchDocumentsB :
           fs = (InputA :> docA) @@ (InputB :> docB)
                @@ [p \in LogPaths |-> OldLog]
    /\ current_main_log_file \in {<<>>, MainLog, OtherLog}
    /\ call = NoCall
    /\ result = NoResult
    /\ locals = NoLocals
    /\ opened = <<>>
    /\ srt_file = NoObject
    /\ phony_subtitles = <<>>
    /\ removal_result = NoRemoval

\* the caller cleans the files that have no cleaned file yet, in any order
NextBatch ==
    \E input_file_path \in BatchPaths, with_logging \in BOOLEAN :
        /\ ~Exists(fs, CleanedPath(input_file_path))
        /\ clean_srt_file(input_file_path, FALSE, with_logging)

SpecBatch == InitBatch /\ [][NextBatch]_vars

-----------------------------------------------------------------------------
(* Claims checked under SpecBatch.                                         *)

\* the texts of the entries, each followed by a newline
TextLines(entries) ==
    Join([i \in 1..Len(entries) |-> entries[i].text \o <<NL>>], <<>>)

\* the junk entries among the parsed entries of the last call
JunkParsed == SelectSeq(locals.parsed, IsJunk)

\* the per-file log that the claim names for the last call
NamedLog ==
    SubSeq(call.input_file_path, 1, Len(call.input_file_path) - 4)
    \o (IF JunkParsed = <<>> THEN empty_log_ending ELSE filled_log_ending)

\* C14: after a file is processed with logging on, the per-file log is the
\* input path without its extension followed by " - empty_log.txt" when no
\* entry is junk and by " - cleaner_log.txt" otherwise, and it holds exactly
\* the texts of the junk entries in document order, each followed by a
\* newline, whatever the file held before.
C14_PerFileLog ==
    (Succeeded /\ call.with_logging) =>
        /\ Exists(fs, NamedLog)
        /\ fs[NamedLog] = TextLines(JunkParsed)

\* a log of two removed texts has replaced the old content
C14_Witness ==
    /\ Succeeded
    /\ call.with_logging
    /\ Len(JunkParsed) = 2
    /\ fs[NamedLog] # OldLog
    /\ Len(fs[NamedLog]) > 2


\* a log path ending in ".txt" is configured: the batch log is MainLog
BatchLogConfigured == current_main_log_file = MainLog

\* the call of this step has processed its file
ProcessedNow == result'.returned = "success"

\* the texts this step removes from its file, each followed by a newline
RemovedNow == TextLines(SelectSeq(locals'.parsed, IsJunk))

\* s is the beginning of t
IsPrefix(s, t) == Len(s) <= Len(t) /\ SubSeq(t, 1, Len(s)) = s

-----------------------------------------------------------------------------
(* Claims checked under Spec: serialization and removal.                   *)

\* the decimal text of a natural number, most significant digit first
IsDecimalOf(s, n) ==
    /\ Len(s) > 0
    /\ \A k \in 1..Len(s) : IsDigit(s[k])
    /\ (Len(s) > 1 => s[1] # "0")
    /\ DigitsVal(s, 0) = n

\* the list is the serialization of the entries: four items an entry, and no
\* empty item after the last entry
IsSerialization(items, entries) ==
    /\ Len(items) = (IF Len(entries) = 0 THEN 0 ELSE 4 * Len(entries) - 1)
    /\ \A i \in 1..Len(entries) :
           /\ IsDecimalOf(items[4 * i - 3], entries[i].number)
           /\ items[4 * i - 2] = entries[i].timestamp
           /\ items[4 * i - 1] = entries[i].text
           /\ i < Len(entries) => items[4 * i] = <<>>

\* C16: the list prepare_cleaned_content_for_write returns for n entries has
\* 4n - 1 items when n > 0, for each entry in order its number in decimal,
\* its timing line, its text and an empty item, without the empty item after
\* the last entry; for no entries the list is empty.
C16_SerializationShape ==
    Succeeded => IsSerialization(locals.cleaned_content, locals.subtitles)

\* two entries are serialized as seven items
C16_Witness ==
    /\ Succeeded
    /\ Len(locals.subtitles) = 2
    /\ Len(locals.cleaned_content) = 7
    /\ locals.cleaned_content[4] = <<>>


-----------------------------------------------------------------------------
(* SRTFile._parse_time on its own, as the unit tests call it.              *)

TwoDigits(n) == <<DigitChars[(n \div 10) + 1], DigitChars[(n % 10) + 1]>>

ThreeDigits(n) == <<DigitChars[(n \div 100) + 1]>> \o TwoDigits(n % 100)

\* "HH:MM:SS,mmm"
TimeText(h, m, s, ms) ==
    TwoDigits(h) \o <<":">> \o TwoDigits(m) \o <<":">> \o TwoDigits(s)
    \o <<",">> \o ThreeDigits(ms)

TimeHours == {0, 1, 21, 99}

TimeMinutes == {0, 21, 59}

TimeSeconds == {0, 2, 36, 59}

TimeMillis == {0, 5, 343, 925, 999}

TimePadding == {<<>>, <<" ">>, <<" ", "\t", " ">>}

WellFormedTimes ==
    {before \o TimeText(h, m, s, ms) \o after :
        h \in TimeHours, m \in TimeMinutes, s \in TimeSeconds,
        ms \in TimeMillis, before \in TimePadding, after \in TimePadding}

\* strings that _parse_time answers with 0.0
MalformedTimes ==
    {<<>>, <<"1", ":", "2">>, <<"0", "0", ":", "0", "0", ":", "0", "5">>,
     <<"a", "a", ":", "0", "0", ":", "0", "1", ",", "0", "0", "0">>,
     <<"0", "0", ":", "0", "0", ":", "0", "1", ".", "5", "0", "0">>}

TimeStrings == WellFormedTimes \cup MalformedTimes

_parse_time(time_str) ==
    /\ call' = [op |-> "_parse_time", time_str |-> time_str]
    /\ result' = [returned |-> "seconds", milliseconds |-> ParseTime(time_str)]
    /\ UNCHANGED <<fs, current_main_log_file, locals, opened, srt_file,
                   phony_subtitles, removal_result>>

\* an SRTFile whose file is not read: _parse_time uses the string only
InitTime ==
    /\ fs = [p \in {} |-> <<>>]
    /\ current_main_log_file = <<>>
    /\ call = NoCall
    /\ result = NoResult
    /\ locals = NoLocals
    /\ opened = <<>>
    /\ srt_file = NoObject
    /\ phony_subtitles = <<>>
    /\ removal_result = NoRemoval

NextTime ==
    /\ call.op = "none"
    /\ \E time_str \in TimeStrings : _parse_time(time_str)

SpecTime == InitTime /\ [][NextTime]_vars


-----------------------------------------------------------------------------
(* Claims checked under SpecTime.                                          *)

IsNotSpace(c) == ~IsSpace(c)

\* the characters of the string that are not whitespace
TimeCore(t) == SelectSeq(t, IsNotSpace)

\* two digits read as a number
TwoAt(c, i) == DigitVal(c[i]) * 10 + DigitVal(c[i + 1])

\* "HH:MM:SS,mmm" with whitespace before and after it only
WellFormedCore(t, c) ==
    /\ Len(c) = 12
    /\ c[3] = ":" /\ c[6] = ":" /\ c[9] = ","
    /\ \A i \in {1, 2, 4, 5, 7, 8, 10, 11, 12} : IsDigit(c[i])
    /\ \E a \in 0..(Len(t) - 12) : SubSeq(t, a + 1, a + 12) = c

MillisOfCore(c) ==
    TwoAt(c, 1) * 3600000 + TwoAt(c, 4) * 60000 + TwoAt(c, 7) * 1000
    + DigitVal(c[10]) * 100 + TwoAt(c, 11)

\* C17: for a string "HH:MM:SS,mmm", with or without whitespace around it,
\* _parse_time returns HH * 3600000 + MM * 60000 + SS * 1000 + mmm counted in
\* milliseconds; "00:21:36,925" gives 1296925 and "01:00:00,000" gives
\* 3600000.
C17_TimeParsing ==
    call.op = "_parse_time" =>
        /\ WellFormedCore(call.time_str, TimeCore(call.time_str)) =>
               result.milliseconds = MillisOfCore(TimeCore(call.time_str))
        /\ call.time_str = TimeText(0, 21, 36, 925) =>
               result.milliseconds = 1296925
        /\ call.time_str = TimeText(1, 0, 0, 0) =>
               result.milliseconds = 3600000

\* a time with every field set and whitespace on both sides has been parsed
C17_Witness ==
    /\ call.op = "_parse_time"
    /\ call.time_str = <<" ">> \o TimeText(21, 59, 36, 925) \o <<" ", "\t", " ">>
    /\ WellFormedCore(call.time_str, TimeCore(call.time_str))
    /\ result.milliseconds = 79176925


-----------------------------------------------------------------------------
(* The steps of the pipeline on one SRTFile, one call at a time: the calls *)
(* of SpecApi, then the serialization and the log.                         *)

\* SrtCleaner.prepare_cleaned_content_for_write on the returned list
prepare_cleaned_content_for_write ==
    /\ call.op = "remove_junk_subtitles"
    /\ call' = [op |-> "prepare_cleaned_content_for_write", raised |-> FALSE]
    /\ locals' =
         [at |-> "prepared",
          cleaned_content |->
              PrepareCleanedContent(removal_result.subtitles_sans_bad_output)]
    /\ UNCHANGED <<fs, current_main_log_file, result, opened, srt_file,
                   phony_subtitles, removal_result>>

\* SrtCleaner.create_phony_subtitles_log on the list find_phony_subtitles
\* returned
create_phony_subtitles_log ==
    /\ call.op = "prepare_cleaned_content_for_write"
    /\ call' = [op |-> "create_phony_subtitles_log", raised |-> FALSE]
    /\ fs' = LogStep(fs, phony_subtitles, srt_file.filepath,
                     current_main_log_file, TRUE).fs
    /\ opened' = LogStep(fs, phony_subtitles, srt_file.filepath,
                         current_main_log_file, TRUE).opened
    /\ UNCHANGED <<current_main_log_file, result, locals, srt_file,
                   phony_subtitles, removal_result>>

NextFrame ==
    \/ NextApi
    \/ prepare_cleaned_content_for_write
    \/ create_phony_subtitles_log

SpecFrame == Init /\ [][NextFrame]_vars

-----------------------------------------------------------------------------
(* Claims checked under SpecFrame.                                         *)

\* every entry of the list is, but for its number, an entry of subtitles
AllFrom(list, subtitles) ==
    \A i \in 1..Len(list) :
        \E j \in 1..Len(subtitles) : Content(list[i]) = Content(subtitles[j])

\* a call on the parsed object has just returned
AfterParsing ==
    /\ srt_file.constructed
    /\ call'.op \notin {"SRTFile", "parse"}

\* C18: no call after parsing changes the timing line, the text, the start
\* time or the end time of an entry of the object, the lists that the calls
\* return hold entries of the object that differ from them in the number at
\* most, and find_phony_subtitles changes nothing of the object, not even a
\* number.
C18_EntryFrame ==
    [][AfterParsing =>
          /\ ContentOf(srt_file'.subtitles) = ContentOf(srt_file.subtitles)
          /\ AllFrom(phony_subtitles', srt_file.subtitles)
          /\ removal_result'.returned = "value" =>
                 AllFrom(removal_result'.subtitles_sans_bad_output,
                         srt_file.subtitles)
          /\ call'.op = "find_phony_subtitles" =>
                 /\ srt_file' = srt_file
                 /\ removal_result' = removal_result]_vars

\* the whole pipeline has run and has given new numbers to entries of the
\* object, whose other fields are as parsed
C18_Witness ==
    /\ call.op = "create_phony_subtitles_log"
    /\ Len(phony_subtitles) > 0
    /\ srt_file.subtitles # ParseContent(fs[srt_file.filepath])
    /\ ContentOf(srt_file.subtitles)
       = ContentOf(ParseContent(fs[srt_file.filepath]))


-----------------------------------------------------------------------------
(* Claims checked under Spec: removal in the pipeline.                     *)

\* the parsed entries whose text matches no junk pattern, in order
NotJunkParsed == SelectSeq(locals.parsed, IsNotJunk)

\* C19: whenever a file has been processed, the entries of the cleaned output
\* are, in order and but for their numbers, exactly the parsed entries whose
\* text matches no junk pattern: every such entry is kept, also one that has
\* the number and the timing line of a flagged entry, and no other is.
C19_RemovalExact ==
    Succeeded =>
        /\ ContentOf(locals.subtitles) = ContentOf(NotJunkParsed)
        /\ ContentOf(CleanedEntries) = ContentOf(NotJunkParsed)

\* a junk entry was removed and the entry with the same number and timing
\* line, which is no junk, is in the cleaned output
C19_Witness ==
    /\ Succeeded
    /\ Len(locals.phony_subtitles) = 1
    /\ Len(CleanedEntries) = 1
    /\ CleanedEntries[1].timestamp = locals.phony_subtitles[1].timestamp
    /\ \E i \in 1..Len(locals.parsed) :
           /\ IsNotJunk(locals.parsed[i])
           /\ locals.parsed[i].number = locals.phony_subtitles[1].number


-----------------------------------------------------------------------------
(* parse called again and again on one SRTFile, the file left as it is.    *)

MaxParses == 3

\* the count of parse calls made on the object so far
ParsesDone ==
    IF call.op # "parse" THEN 0
    ELSE IF "parses" \in DOMAIN call THEN call.parses ELSE 1

\* SRTFile.parse on an object that parse was called on before
parse_again ==
    /\ call.op = "parse"
    /\ ParsesDone < MaxParses
    /\ IF Exists(fs, srt_file.filepath) /\ ~IsDirectory(fs, srt_file.filepath)
       THEN /\ call' = [op |-> "parse", raised |-> FALSE,
                        parses |-> ParsesDone + 1]
            /\ srt_file' = AfterParse(srt_file, fs[srt_file.filepath])
       ELSE /\ call' = [op |-> "parse", raised |-> TRUE,
                        parses |-> ParsesDone + 1]
            /\ UNCHANGED srt_file
    /\ UNCHANGED <<fs, current_main_log_file, result, locals, opened,
                   phony_subtitles, removal_result>>

NextParses ==
    \/ \E input_filepath \in {InputA, Missing} : SRTFile(input_filepath)
    \/ parse
    \/ parse_again

SpecParses == Init /\ [][NextParses]_vars

-----------------------------------------------------------------------------
(* Claims checked under SpecParses.                                        *)

RECURSIVE Repeated(_, _)
\* the list k times over
Repeated(list, k) ==
    IF k = 0 THEN <<>> ELSE list \o Repeated(list, k - 1)

\* C21: after k calls of parse on one SRTFile whose file stays as it is,
\* subtitles is the list of the entries of the document k times over, in
\* order, and original_content is the text of the file once.
C21_ParseAccumulates ==
    (call.op = "parse" /\ ~call.raised) =>
        /\ srt_file.subtitles
           = Repeated(ParseContent(fs[srt_file.filepath]), ParsesDone)
        /\ srt_file.original_content = fs[srt_file.filepath]

\* parse was called MaxParses times on a document of two entries
C21_Witness ==
    /\ call.op = "parse" /\ ~call.raised
    /\ ParsesDone = MaxParses
    /\ Len(ParseContent(fs[srt_file.filepath])) = 2
    /\ Len(srt_file.subtitles) = 2 * MaxParses
    /\ srt_file.original_content # <<>>

=============================================================================
